---------------------------- MODULE Spec2Model ----------------------------
(***************************************************************************)
(* A model of src/src/components/SpaceShooterGame.tsx: the game state kept *)
(* in gameStateRef.current, the React snapshot gameInfo, and the handlers  *)
(* that change them: startLevel1 and restartGame (the two buttons),        *)
(* handleKeyDown / handleKeyUp (the keyboard) and gameLoop (the 16 ms      *)
(* interval).  JavaScript runs each handler to completion, so each is one  *)
(* atomic action.                                                          *)
(*                                                                         *)
(* Time is kept in milliseconds: timeRemaining is 1000 times the program's *)
(* value in seconds, so that "timeRemaining -= deltaTime" stays in the     *)
(* integers.  The program only ever subtracts two Date.now() readings, so  *)
(* the reading taken at the start of a level is called LevelStartMs in     *)
(* every level; the boss's initial lastShot keeps the program's literal 0. *)
(* Sprites and the PIXI stage are the render collaborator: not modelled.   *)
(***************************************************************************)
EXTENDS Integers, Sequences, FiniteSets, TLC

(* ------------------------- program constants -------------------------- *)
ScreenWidth == 1280
ScreenHeight == 720
FrameMs == 16
LevelBullets == 10
LevelSeconds == 60
AsteroidCount == 5
BossMaxHp == 4
PlayerStep == 5
PlayerMargin == 15
BossStep == 2
BossMargin == 40
BossCooldownMs == 2000
BossPhaseMs == 3000
PlayerBulletVy == -8
BossBulletVy == 6

(* ------------------------------ bounds -------------------------------- *)
\* Nominal frames explored per level in the first session.
MaxFrames == 127
\* Nominal frames explored per level in a later session.
ReplayFrames == 2
\* startLevel1 is invoked at most MaxStarts times in a run.
MaxStarts == 2
\* An interval delay long enough to use up a whole level's time at once.
StallMs == 60000
\* The Date.now() reading at the start of a level.
LevelStartMs == 100000
\* An interval delay of the length of the boss's cooldown (a throttled timer).
LagMs == 2000

\* Elapsed time between two readings of Date.now(): a nominal frame, a lag or
\* a stall.
Deltas == {FrameMs, LagMs, StallMs}
\* Keys the handlers and the loop ever read.
KeyCodes == {"Space", "ArrowLeft", "ArrowRight"}
\* Frames (ticks since the level began) at which the fire key changes.
FireFrames == {0, 21}
\* Frames at which an arrow key changes.
MoveFrames == {0}
\* Frames at which the interval stalls.
StallFrames == {0, 20, 32, 63, 90}
\* Frames at which the interval lags.
LagFrames == {1}
\* Nominal frames per level when the interval is followed to a level's end.
LiveFrames == 34
\* Interval delays then: a nominal frame, or half a level's time.
LiveDeltas == {FrameMs, StallMs \div 2}
\* Largest coordinate of a box handed to checkCollision on its own.
MaxCoord == 3
\* Widths and heights of such a box (an odd one puts its edges on halves).
BoxSizes == {2, 3, 6}
\* Outcomes of Math.random() in startLevel1: the five asteroid centres.
Layouts ==
  { [i \in 1..AsteroidCount |-> [x |-> 640, y |-> 349]],
    [i \in 1..AsteroidCount |-> [x |-> 745, y |-> 50]],
    [i \in 1..AsteroidCount |->
        IF i <= 2 THEN [x |-> 640, y |-> 349]
        ELSE IF i = 3 THEN [x |-> 640, y |-> 200]
        ELSE [x |-> 745, y |-> 50]] }

(* ------------------------------ helpers ------------------------------- *)
NULL == [null |-> TRUE]

Abs(n) == IF n < 0 THEN -n ELSE n

\* Array.prototype.splice(i, 1) on a 1-based sequence: removes the element at
\* i when there is one, and nothing otherwise.
Splice(seq, i) ==
  IF i >= 1 /\ i <= Len(seq)
  THEN SubSeq(seq, 1, i - 1) \o SubSeq(seq, i + 1, Len(seq))
  ELSE seq

\* Math.ceil of ms / 1000, for ms > 0.
CeilSeconds(ms) == (ms + 999) \div 1000

(* --------------------------- entity creation -------------------------- *)
createPlayer ==
  [x |-> ScreenWidth \div 2, y |-> ScreenHeight - 60, width |-> 30, height |-> 40]

createBullet(x, y, isPlayerBullet) ==
  [x |-> x, y |-> y, width |-> 6, height |-> 6,
   vy |-> IF isPlayerBullet THEN PlayerBulletVy ELSE BossBulletVy]

createAsteroid(x, y) == [x |-> x, y |-> y, width |-> 60, height |-> 60]

createBoss(nowMs) ==
  [x |-> ScreenWidth \div 2, y |-> 100, width |-> 80, height |-> 60,
   hp |-> BossMaxHp, maxHp |-> BossMaxHp, lastShot |-> 0, movingRight |-> TRUE,
   moveStartTime |-> nowMs]

(* ----------------------------- collision ------------------------------ *)
\* checkCollision as it would be with "<=" and ">=".
checkCollision_Touching(obj1, obj2) ==
  /\ 2 * obj1.x - obj1.width <= 2 * obj2.x + obj2.width
  /\ 2 * obj1.x + obj1.width >= 2 * obj2.x - obj2.width
  /\ 2 * obj1.y - obj1.height <= 2 * obj2.y + obj2.height
  /\ 2 * obj1.y + obj1.height >= 2 * obj2.y - obj2.height

\* Edges are compared doubled (2*left = 2*x - width), so that width / 2 needs
\* no fractions.
checkCollision(obj1, obj2) ==
  LET obj1Left == 2 * obj1.x - obj1.width
      obj1Right == 2 * obj1.x + obj1.width
      obj1Top == 2 * obj1.y - obj1.height
      obj1Bottom == 2 * obj1.y + obj1.height
      obj2Left == 2 * obj2.x - obj2.width
      obj2Right == 2 * obj2.x + obj2.width
      obj2Top == 2 * obj2.y - obj2.height
      obj2Bottom == 2 * obj2.y + obj2.height
  IN  /\ obj1Left < obj2Right
      /\ obj1Right > obj2Left
      /\ obj1Top < obj2Bottom
      /\ obj1Bottom > obj2Top

(* ------------------------------- state -------------------------------- *)
VARIABLES
  appRef,            \* appRef.current is set (app.init() has resolved)
  player,            \* gameStateRef.current.player, or NULL
  bullets,           \* .bullets
  asteroids,         \* .asteroids
  boss,              \* .boss, or NULL
  bossBullets,       \* .bossBullets
  keys,              \* .keys
  bulletsRemaining,  \* .bulletsRemaining
  timeRemaining,     \* .timeRemaining, in ms
  gameState,         \* .gameState
  lastTime,          \* .lastTime
  gameInfo,          \* the React state behind the HUD and the buttons
  frame,             \* ticks the loop has processed since the level began
  starts,            \* invocations of startLevel1 so far
  last,              \* the last event handled, and what it met
  boxA,              \* a box handed to checkCollision on its own, or NULL
  boxB,              \* the other box, or NULL
  answer             \* what the calls of checkCollision on them returned

store == <<player, bullets, asteroids, boss, bossBullets, bulletsRemaining,
           timeRemaining, gameState, lastTime, gameInfo>>
vars == <<appRef, player, bullets, asteroids, boss, bossBullets, keys,
          bulletsRemaining, timeRemaining, gameState, lastTime, gameInfo,
          frame, starts, last, boxA, boxB, answer>>
probe == <<boxA, boxB, answer>>

Levels == {"level1", "level2"}
Idle == {"menu", "win", "lose"}

\* The game state as one record, as the handlers see it.
Game ==
  [player |-> player, bullets |-> bullets, asteroids |-> asteroids,
   boss |-> boss, bossBullets |-> bossBullets,
   bulletsRemaining |-> bulletsRemaining, timeRemaining |-> timeRemaining,
   gameState |-> gameState, lastTime |-> lastTime, gameInfo |-> gameInfo]

\* The next state's game state is the record g.
Becomes(g) ==
  /\ player' = g.player
  /\ bullets' = g.bullets
  /\ asteroids' = g.asteroids
  /\ boss' = g.boss
  /\ bossBullets' = g.bossBullets
  /\ bulletsRemaining' = g.bulletsRemaining
  /\ timeRemaining' = g.timeRemaining
  /\ gameState' = g.gameState
  /\ lastTime' = g.lastTime
  /\ gameInfo' = g.gameInfo

\* What an event leaves in "last": the handler, its input, the outcome it met.
Event(op, code, d) ==
  [op |-> op, code |-> code, repeat |-> FALSE, d |-> d, from |-> gameState,
   ammo |-> bulletsRemaining, hitPlayer |-> FALSE, cleared |-> FALSE,
   ammoOut |-> FALSE, ammoLose |-> FALSE, moved |-> <<>>, spawned |-> <<>>,
   inFlight |-> <<>>]

InitGame ==
  /\ appRef = FALSE
  /\ player = NULL
  /\ bullets = <<>>
  /\ asteroids = <<>>
  /\ boss = NULL
  /\ bossBullets = <<>>
  /\ keys = [c \in KeyCodes |-> FALSE]
  /\ bulletsRemaining = LevelBullets
  /\ timeRemaining = LevelSeconds * 1000
  /\ gameState = "menu"
  /\ lastTime = 0
  /\ gameInfo = [bullets |-> 10, time |-> 60, state |-> "menu", bossHp |-> 0,
                 bossMaxHp |-> 4]
  /\ frame = 0
  /\ starts = 0
  /\ last = [op |-> "load", code |-> "", repeat |-> FALSE, d |-> 0,
             from |-> "menu", ammo |-> LevelBullets, hitPlayer |-> FALSE,
             cleared |-> FALSE, ammoOut |-> FALSE, ammoLose |-> FALSE,
             moved |-> <<>>, spawned |-> <<>>, inFlight |-> <<>>]

Init == InitGame /\ boxA = NULL /\ boxB = NULL /\ answer = <<>>

(* ---------------------------- level starts ----------------------------- *)
\* startLevel1 as it would be without "gameState.bullets = []".
startLevel1_KeepBullets(g, layout) ==
  [g EXCEPT
     !.player = createPlayer,
     !.asteroids = [i \in 1..AsteroidCount |->
                      createAsteroid(layout[i].x, layout[i].y)],
     !.bulletsRemaining = LevelBullets,
     !.timeRemaining = LevelSeconds * 1000,
     !.gameState = "level1",
     !.lastTime = LevelStartMs,
     !.gameInfo = [@ EXCEPT !.bullets = 10, !.time = 60, !.state = "level1"]]

\* startLevel1 past its appRef guard; layout is what Math.random() gave.
\* It assigns player, asteroids, bullets and the counters, and nothing else.
startLevel1(g, layout) ==
  [g EXCEPT
     !.player = createPlayer,
     !.asteroids = [i \in 1..AsteroidCount |->
                      createAsteroid(layout[i].x, layout[i].y)],
     !.bullets = <<>>,
     !.bulletsRemaining = LevelBullets,
     !.timeRemaining = LevelSeconds * 1000,
     !.gameState = "level1",
     !.lastTime = LevelStartMs,
     !.gameInfo = [@ EXCEPT !.bullets = 10, !.time = 60, !.state = "level1"]]

\* startLevel2 as it would be without "gameState.bulletsRemaining = 10".
startLevel2_KeepAmmo(g) ==
  [g EXCEPT
     !.player = createPlayer,
     !.boss = createBoss(LevelStartMs),
     !.bossBullets = <<>>,
     !.bullets = <<>>,
     !.timeRemaining = LevelSeconds * 1000,
     !.gameState = "level2",
     !.lastTime = LevelStartMs,
     !.gameInfo = [@ EXCEPT !.bullets = 10, !.time = 60, !.state = "level2",
                            !.bossHp = 4, !.bossMaxHp = 4]]

startLevel2(g) ==
  [g EXCEPT
     !.player = createPlayer,
     !.boss = createBoss(LevelStartMs),
     !.bossBullets = <<>>,
     !.bullets = <<>>,
     !.bulletsRemaining = LevelBullets,
     !.timeRemaining = LevelSeconds * 1000,
     !.gameState = "level2",
     !.lastTime = LevelStartMs,
     !.gameInfo = [@ EXCEPT !.bullets = 10, !.time = 60, !.state = "level2",
                            !.bossHp = 4, !.bossMaxHp = 4]]

restartGame(g) ==
  [g EXCEPT
     !.gameState = "menu",
     !.bullets = <<>>,
     !.asteroids = <<>>,
     !.boss = NULL,
     !.bossBullets = <<>>,
     !.player = NULL,
     !.gameInfo = [bullets |-> 10, time |-> 60, state |-> "menu", bossHp |-> 0,
                   bossMaxHp |-> 4]]

\* The outcome becomes lose (createBackground and showMessage only draw).
Lose(g) ==
  [g EXCEPT !.gameState = "lose", !.gameInfo = [@ EXCEPT !.state = "lose"]]

Win(g) ==
  [g EXCEPT !.gameState = "win", !.gameInfo = [@ EXCEPT !.state = "win"]]

(* ------------------------------ keyboard ------------------------------- *)
\* The fire condition as it would be without "bulletsRemaining > 0".
CanFire_AnyAmmo(g, code) ==
  code = "Space" /\ g.player # NULL

\* The condition under which handleKeyDown fires a bullet.
CanFire(g, code) ==
  code = "Space" /\ g.bulletsRemaining > 0 /\ g.player # NULL

\* handleKeyDown as it would be without "bulletsRemaining--".
handleKeyDown_NoDecrement(g, code) ==
  IF CanFire(g, code)
  THEN [g EXCEPT
          !.bullets = Append(@, createBullet(g.player.x, g.player.y - 20, TRUE))]
  ELSE g

handleKeyDown(g, code) ==
  IF CanFire(g, code)
  THEN [g EXCEPT
          !.bullets = Append(@, createBullet(g.player.x, g.player.y - 20, TRUE)),
          !.bulletsRemaining = @ - 1,
          !.gameInfo = [@ EXCEPT !.bullets = g.bulletsRemaining - 1]]
  ELSE g

\* Frames at which the key `code` may change.
InputFrames(code) == IF code = "Space" THEN FireFrames ELSE MoveFrames

\* A keydown event.  The browser marks it a repeat (e.repeat) exactly when the
\* key is already down; the handler does not read e.repeat.
Press(code) ==
  /\ keys' = [keys EXCEPT ![code] = TRUE]
  /\ Becomes(handleKeyDown(Game, code))
  /\ last' = [Event("keydown", code, 0) EXCEPT !.repeat = keys[code]]
  /\ UNCHANGED <<appRef, frame, starts>>
  /\ UNCHANGED probe

\* A keyup event, of a key that is down.
Release(code) ==
  /\ keys[code]
  /\ keys' = [keys EXCEPT ![code] = FALSE]
  /\ last' = Event("keyup", code, 0)
  /\ UNCHANGED <<appRef, frame, starts>>
  /\ UNCHANGED probe
  /\ UNCHANGED store

KeyDown(code) == frame \in InputFrames(code) /\ Press(code)

KeyUp(code) == frame \in InputFrames(code) /\ Release(code)

(* ------------------------------- buttons ------------------------------- *)
\* app.init() resolves: appRef.current is set.
AppInit ==
  /\ ~appRef
  /\ appRef' = TRUE
  /\ last' = Event("init", "", 0)
  /\ UNCHANGED <<keys, frame, starts>>
  /\ UNCHANGED probe
  /\ UNCHANGED store

\* START NEW GAME: enabled unless gameInfo.state is a level; startLevel1
\* returns at once while appRef.current is unset.
ClickStart(layout) ==
  /\ gameInfo.state \in Idle
  /\ appRef
  /\ Becomes(startLevel1(Game, layout))
  /\ frame' = 0
  /\ starts' = starts + 1
  /\ last' = Event("start", "", 0)
  /\ UNCHANGED <<appRef, keys>>
  /\ UNCHANGED probe

StartLevel1(layout) == starts < MaxStarts /\ ClickStart(layout)

\* BACK TO MENU: rendered only when gameInfo.state is win or lose.
Restart ==
  /\ gameInfo.state \in {"win", "lose"}
  /\ appRef
  /\ Becomes(restartGame(Game))
  /\ frame' = 0
  /\ last' = Event("restart", "", 0)
  /\ UNCHANGED <<appRef, keys, starts>>
  /\ UNCHANGED probe

(* ------------------------------ gameLoop ------------------------------- *)
\* The idle return as it would be without "gameState === 'win'".
LoopIdle_NoWin(ready, g) == ~ready \/ g.gameState \in {"menu", "lose"}

\* The loop returns at once while appRef.current is unset or outside a level.
LoopIdle(ready, g) == ~ready \/ g.gameState \in {"menu", "win", "lose"}

\* The loop as it would be without its "Update timer" step.
UpdateTimer_Frozen(g, d) == g

\* "Update timer": d is currentTime - lastTime.
UpdateTimer(g, d) ==
  [g EXCEPT !.timeRemaining = @ - d, !.lastTime = @ + d]

\* The timeout test as it would be with "< 0".
TimeIsUp_Strict(g) == g.timeRemaining < 0

TimeIsUp(g) == g.timeRemaining <= 0

TimeoutLose(g) ==
  [g EXCEPT !.gameState = "lose",
            !.gameInfo = [@ EXCEPT !.state = "lose", !.time = 0]]

ShowTime(g) ==
  [g EXCEPT !.gameInfo = [@ EXCEPT !.time =
      IF g.timeRemaining > 0 THEN CeilSeconds(g.timeRemaining) ELSE 0]]

\* The movement as it would be with ">=" and "<=" at the margins.
MovePlayer_UpToMargin(g, k) ==
  IF g.player = NULL THEN g
  ELSE LET p1 == IF k["ArrowLeft"] /\ g.player.x >= PlayerMargin
                 THEN [g.player EXCEPT !.x = @ - PlayerStep] ELSE g.player
           p2 == IF k["ArrowRight"] /\ p1.x <= ScreenWidth - PlayerMargin
                 THEN [p1 EXCEPT !.x = @ + PlayerStep] ELSE p1
       IN  [g EXCEPT !.player = p2]

\* "Player movement": both tests run, the second on the moved player.
MovePlayer(g, k) ==
  IF g.player = NULL THEN g
  ELSE LET p1 == IF k["ArrowLeft"] /\ g.player.x > PlayerMargin
                 THEN [g.player EXCEPT !.x = @ - PlayerStep] ELSE g.player
           p2 == IF k["ArrowRight"] /\ p1.x < ScreenWidth - PlayerMargin
                 THEN [p1 EXCEPT !.x = @ + PlayerStep] ELSE p1
       IN  [g EXCEPT !.player = p2]

\* "Update bullets": bullets.forEach visits the indices 0 .. n-1 of the array
\* as it is when each is reached, and the callback splices the array it walks.
RECURSIVE UpdateBulletsFrom(_, _, _)
UpdateBulletsFrom(bs, index, n) ==
  IF index > n \/ index > Len(bs) THEN bs
  ELSE LET moved == [bs EXCEPT ![index] = [@ EXCEPT !.y = @ + bs[index].vy]]
       IN  UpdateBulletsFrom(
             IF moved[index].y < 0 THEN Splice(moved, index) ELSE moved,
             index + 1, n)

UpdateBullets(g) ==
  [g EXCEPT !.bullets = UpdateBulletsFrom(@, 1, Len(@))]

\* The inner loop of the level-1 collision check: the last asteroid, from
\* asteroidIndex down, that the bullet overlaps (0: none).
RECURSIVE FirstHit(_, _, _)
FirstHit(bullet, as, asteroidIndex) ==
  IF asteroidIndex < 1 THEN 0
  ELSE IF checkCollision(bullet, as[asteroidIndex]) THEN asteroidIndex
  ELSE FirstHit(bullet, as, asteroidIndex - 1)

\* The outer loop, from bulletIndex down: a hit removes bullet and asteroid.
RECURSIVE BulletsVsAsteroids(_, _)
BulletsVsAsteroids(g, bulletIndex) ==
  IF bulletIndex < 1 THEN g
  ELSE LET hit == FirstHit(g.bullets[bulletIndex], g.asteroids, Len(g.asteroids))
       IN  BulletsVsAsteroids(
             IF hit > 0
             THEN [g EXCEPT !.bullets = Splice(@, bulletIndex),
                            !.asteroids = Splice(@, hit)]
             ELSE g,
             bulletIndex - 1)

\* The lose condition as it would be without "bullets.length === 0".
OutOfAmmo_CounterOnly(g) == g.bulletsRemaining = 0

OutOfAmmo(g) == g.bulletsRemaining = 0 /\ Len(g.bullets) = 0

\* Level 1 after the collisions with the two checks in the other order.
Level1Outcome_AmmoFirst(g) ==
  IF OutOfAmmo(g) THEN Lose(g)
  ELSE IF Len(g.asteroids) = 0 THEN startLevel2(g)
  ELSE g

\* Level 1 after the collisions as it would be if clearing the asteroids won
\* the game.
Level1Outcome_WinAtClear(g) ==
  IF Len(g.asteroids) = 0 THEN Win(g)
  ELSE IF OutOfAmmo(g) THEN Lose(g)
  ELSE g

\* Level 1 after the collisions: "Check win condition", then "Check lose
\* condition".
Level1Outcome(g) ==
  IF Len(g.asteroids) = 0 THEN startLevel2(g)
  ELSE IF OutOfAmmo(g) THEN Lose(g)
  ELSE g

(* level 2 *)
\* "Boss movement".
MoveBoss(g, currentTime) ==
  LET movePhase == ((currentTime - g.boss.moveStartTime) \div BossPhaseMs) % 2
  IN  IF movePhase # 1 THEN g
      ELSE IF g.boss.movingRight
      THEN [g EXCEPT !.boss = [@ EXCEPT
              !.x = @ + BossStep,
              !.movingRight = ~(g.boss.x + BossStep > ScreenWidth - BossMargin)]]
      ELSE [g EXCEPT !.boss = [@ EXCEPT
              !.x = @ - BossStep,
              !.movingRight = (g.boss.x - BossStep < BossMargin)]]

\* "Boss shooting".
BossShoots(g, currentTime) ==
  IF currentTime - g.boss.lastShot > BossCooldownMs
  THEN [g EXCEPT
          !.bossBullets = Append(@, createBullet(g.boss.x, g.boss.y + 30, FALSE)),
          !.boss = [@ EXCEPT !.lastShot = currentTime]]
  ELSE g

\* The inner forEach of "Update boss bullets": the boss bullet (already moved,
\* held by reference) against each player bullet from index j on; a hit
\* splices bossBullets at the boss bullet's index and bullets at j.
RECURSIVE CancelBullets(_, _, _, _, _)
CancelBullets(g, bullet, index, j, m) ==
  IF j > m \/ j > Len(g.bullets) THEN g
  ELSE CancelBullets(
         IF checkCollision(bullet, g.bullets[j])
         THEN [g EXCEPT !.bossBullets = Splice(@, index),
                        !.bullets = Splice(@, j)]
         ELSE g,
         bullet, index, j + 1, m)

\* One call of the callback of bossBullets.forEach, for the bullet at index.
\* Its "return" after the player is hit ends this call only.
BossBulletCallback(g, index) ==
  LET bullet == [g.bossBullets[index] EXCEPT !.y = @ + g.bossBullets[index].vy]
      g1 == [g EXCEPT !.bossBullets = [@ EXCEPT ![index] = bullet]]
      g2 == IF bullet.y > ScreenHeight
            THEN [g1 EXCEPT !.bossBullets = Splice(@, index)] ELSE g1
  IN  IF g2.player # NULL /\ checkCollision(bullet, g2.player)
      THEN [g |-> Lose(g2), hitPlayer |-> TRUE]
      ELSE [g |-> CancelBullets(g2, bullet, index, 1, Len(g2.bullets)),
            hitPlayer |-> FALSE]

RECURSIVE UpdateBossBullets(_, _, _, _)
UpdateBossBullets(g, index, n, hitPlayer) ==
  IF index > n \/ index > Len(g.bossBullets)
  THEN [g |-> g, hitPlayer |-> hitPlayer]
  ELSE LET r == BossBulletCallback(g, index)
       IN  UpdateBossBullets(r.g, index + 1, n, hitPlayer \/ r.hitPlayer)

\* "Check collision between player and boss".
PlayerTouchesBoss(g) ==
  /\ g.player # NULL
  /\ g.boss # NULL
  /\ Abs(g.player.x - g.boss.x) + Abs(g.player.y - g.boss.y) < 50
  /\ checkCollision(g.player, g.boss)

\* The bullet-boss check as it would be without the return at hp === 0.
RECURSIVE BulletsVsBoss_NoStop(_, _)
BulletsVsBoss_NoStop(g, bulletIndex) ==
  IF bulletIndex < 1 THEN [g |-> g, returned |-> FALSE]
  ELSE IF checkCollision(g.bullets[bulletIndex], g.boss)
  THEN LET g1 == [g EXCEPT !.bullets = Splice(@, bulletIndex),
                           !.boss = [@ EXCEPT !.hp = @ - 1],
                           !.gameInfo = [@ EXCEPT !.bossHp = g.boss.hp - 1]]
       IN  BulletsVsBoss_NoStop(IF g1.boss.hp = 0 THEN Win(g1) ELSE g1,
                                bulletIndex - 1)
  ELSE BulletsVsBoss_NoStop(g, bulletIndex - 1)

\* "Check player bullet-boss collisions", from bulletIndex down; returned is
\* set when the loop ends the tick (the boss's hp reached 0).
RECURSIVE BulletsVsBoss(_, _)
BulletsVsBoss(g, bulletIndex) ==
  IF bulletIndex < 1 THEN [g |-> g, returned |-> FALSE]
  ELSE IF checkCollision(g.bullets[bulletIndex], g.boss)
  THEN LET g1 == [g EXCEPT !.bullets = Splice(@, bulletIndex),
                           !.boss = [@ EXCEPT !.hp = @ - 1],
                           !.gameInfo = [@ EXCEPT !.bossHp = g.boss.hp - 1]]
       IN  IF g1.boss.hp = 0 THEN [g |-> Win(g1), returned |-> TRUE]
           ELSE BulletsVsBoss(g1, bulletIndex - 1)
  ELSE BulletsVsBoss(g, bulletIndex - 1)

\* "Level 2 logic", entered when gameState is level2 and there is a boss.
\* The result carries what the tick met: hitPlayer; spawned, the boss bullets
\* the boss fired; inFlight, the player bullets when the bullet-boss check
\* began; ammoLose, whether the last check declared the loss.
Level2Logic(g, currentTime) ==
  LET g2 == BossShoots(MoveBoss(g, currentTime), currentTime)
      spawned == SubSeq(g2.bossBullets, Len(g.bossBullets) + 1,
                        Len(g2.bossBullets))
      r3 == UpdateBossBullets(g2, 1, Len(g2.bossBullets), FALSE)
      r5 == BulletsVsBoss(r3.g, Len(r3.g.bullets))
  IN  IF PlayerTouchesBoss(r3.g)
      THEN [g |-> Lose(r3.g), hitPlayer |-> r3.hitPlayer, spawned |-> spawned,
            inFlight |-> <<>>, ammoLose |-> FALSE]
      ELSE [g |-> IF r5.returned THEN r5.g
                  ELSE IF OutOfAmmo(r5.g) THEN Lose(r5.g)
                  ELSE r5.g,
            hitPlayer |-> r3.hitPlayer, spawned |-> spawned,
            inFlight |-> r3.g.bullets,
            ammoLose |-> (~r5.returned /\ OutOfAmmo(r5.g))]

\* gameLoop past its idle return: the new game state and what the tick met.
gameLoop(g0, k, d) ==
  LET g1 == UpdateTimer(g0, d)
      currentTime == g1.lastTime
      g3 == UpdateBullets(MovePlayer(ShowTime(g1), k))
      g4 == BulletsVsAsteroids(g3, Len(g3.bullets))
      none == [hitPlayer |-> FALSE, cleared |-> FALSE, ammoOut |-> FALSE,
               ammoLose |-> FALSE, moved |-> <<>>, spawned |-> <<>>,
               inFlight |-> <<>>]
      some == [none EXCEPT !.moved = g3.bullets]
  IN  IF TimeIsUp(g1) THEN [g |-> TimeoutLose(g1), met |-> none]
      ELSE IF g3.gameState = "level1"
      THEN [g |-> Level1Outcome(g4),
            met |-> [some EXCEPT
                       !.cleared = (Len(g4.asteroids) = 0),
                       !.ammoOut = OutOfAmmo(g4),
                       !.ammoLose = (Len(g4.asteroids) # 0 /\ OutOfAmmo(g4))]]
      ELSE IF g3.gameState = "level2" /\ g3.boss # NULL
      THEN LET r == Level2Logic(g3, currentTime)
           IN  [g |-> r.g,
                met |-> [some EXCEPT !.hitPlayer = r.hitPlayer,
                                     !.spawned = r.spawned,
                                     !.inFlight = r.inFlight,
                                     !.ammoLose = r.ammoLose]]
      ELSE [g |-> g3, met |-> some]

\* Nominal frames explored in the current level.
FrameBudget == IF starts <= 1 THEN MaxFrames ELSE ReplayFrames

\* A call of gameLoop that returns at once.
IdleLoop ==
  /\ LoopIdle(appRef, Game)
  /\ last' = Event("tick", "", 0)
  /\ UNCHANGED <<appRef, keys, frame, starts>>
  /\ UNCHANGED store
  /\ UNCHANGED probe

\* A call of gameLoop in a level, d ms after the previous reading of
\* Date.now(); nextFrame is the frame count after it if the level goes on.
RunLoop(d, nextFrame) ==
  /\ ~LoopIdle(appRef, Game)
  /\ \E r \in {gameLoop(Game, keys, d)} :
         /\ Becomes(r.g)
         /\ frame' = IF gameState = "level1" /\ r.g.gameState = "level2"
                     THEN 0 ELSE nextFrame
         /\ last' = [Event("tick", "", d) EXCEPT
                       !.hitPlayer = r.met.hitPlayer,
                       !.cleared = r.met.cleared,
                       !.ammoOut = r.met.ammoOut,
                       !.ammoLose = r.met.ammoLose,
                       !.moved = r.met.moved,
                       !.spawned = r.met.spawned,
                       !.inFlight = r.met.inFlight]
  /\ UNCHANGED <<appRef, keys, starts>>
  /\ UNCHANGED probe

\* One call of gameLoop by the interval, d ms after the previous reading of
\* Date.now().
Tick(d) ==
  \/ d = FrameMs /\ IdleLoop
  \/ /\ IF d = StallMs THEN frame \in StallFrames
        ELSE IF d = LagMs THEN frame \in LagFrames
        ELSE frame < FrameBudget
     /\ RunLoop(d, frame + 1)

Next ==
  \/ AppInit
  \/ \E layout \in Layouts : StartLevel1(layout)
  \/ Restart
  \/ \E code \in KeyCodes : KeyDown(code)
  \/ \E code \in KeyCodes : KeyUp(code)
  \/ \E d \in Deltas : Tick(d)

Spec == Init /\ [][Next]_vars

(* ------------------- the interval followed to the end ------------------ *)
\* START NEW GAME, once.
LiveStart(layout) == starts = 0 /\ ClickStart(layout)

\* Key events, before the first frame of a level and after it is over.
LiveKeyDown(code) == frame = 0 /\ Press(code)

LiveKeyUp(code) == frame = 0 /\ Release(code)

\* One call of gameLoop by the interval, as Tick, where the interval keeps
\* calling: after LiveFrames nominal frames of a level every further call
\* comes half a level's time after the last.
LiveTick(d) ==
  \/ d = FrameMs /\ IdleLoop
  \/ /\ IF d = FrameMs THEN frame < LiveFrames ELSE frame = LiveFrames
     /\ RunLoop(d, IF frame < LiveFrames THEN frame + 1 ELSE frame)

NextLive ==
  \/ AppInit
  \/ \E layout \in Layouts : LiveStart(layout)
  \/ Restart
  \/ \E code \in KeyCodes : LiveKeyDown(code)
  \/ \E code \in KeyCodes : LiveKeyUp(code)
  \/ \E d \in LiveDeltas : LiveTick(d)

\* Some call of the loop in a level would change the state: the call changes
\* the game state (it does: the clock moves on).
LiveRunEnabled ==
  /\ ~LoopIdle(appRef, Game)
  /\ \E d \in LiveDeltas :
        /\ IF d = FrameMs THEN frame < LiveFrames ELSE frame = LiveFrames
        /\ gameLoop(Game, keys, d).g # Game

\* setInterval(gameLoop, 16) keeps calling the loop: weak fairness of the
\* call, for the call in a level written out with LiveRunEnabled for its
\* ENABLED.
LiveFairness ==
  /\ WF_vars(IdleLoop)
  /\ \/ []<>(~LiveRunEnabled)
     \/ []<><<\E d \in LiveDeltas : LiveTick(d)>>_vars

SpecLive == Init /\ [][NextLive]_vars /\ LiveFairness

(* ----------------------- checkCollision on its own --------------------- *)
\* The boxes: a GameObject's x, y, width and height.
Boxes ==
  [x : 0..MaxCoord, y : 0..MaxCoord, width : BoxSizes, height : BoxSizes]

InitCollision ==
  InitGame /\ boxA \in Boxes /\ boxB \in Boxes /\ answer = <<>>

\* checkCollision(boxA, boxB) is called.
Collide ==
  /\ answer = <<>>
  /\ answer' = <<checkCollision(boxA, boxB)>>
  /\ UNCHANGED <<appRef, keys, frame, starts, last, boxA, boxB>>
  /\ UNCHANGED store

\* checkCollision(boxB, boxA) is called.
CollideSwapped ==
  /\ Len(answer) = 1
  /\ answer' = Append(answer, checkCollision(boxB, boxA))
  /\ UNCHANGED <<appRef, keys, frame, starts, last, boxA, boxB>>
  /\ UNCHANGED store

NextCollision == Collide \/ CollideSwapped

SpecCollision == InitCollision /\ [][NextCollision]_vars

(* ------------------------------ claims --------------------------------- *)
\* The step just taken was a call of gameLoop in a level, d ms after the last.
TickInLevel == last'.op = "tick" /\ appRef /\ gameState \in Levels
\* The step just taken was a keydown of the fire key.
FireKeyDown == last'.op = "keydown" /\ last'.code = "Space"

\* C1: a tick in level1 or level2 whose time remaining, less the elapsed time,
\* is <= 0 ends in lose and runs no other step: player, bullets, asteroids,
\* boss, boss bullets and the bullet counter are as they were.
C1_TimeoutPreempts ==
  [][ (TickInLevel /\ timeRemaining - last'.d <= 0)
      => /\ gameState' = "lose"
         /\ UNCHANGED <<player, bullets, asteroids, boss, bossBullets,
                        bulletsRemaining>> ]_vars

\* C1 witness: a level-1 tick timed out although, had it run, its bullets
\* would have destroyed every asteroid left.
C1_Witness ==
  /\ last.op = "tick" /\ last.from = "level1"
  /\ gameState = "lose" /\ timeRemaining <= 0
  /\ Len(asteroids) > 0 /\ Len(bullets) > 0
  /\ LET g3 == UpdateBullets(Game)
     IN  Len(BulletsVsAsteroids(g3, Len(g3.bullets)).asteroids) = 0

\* C2 as stated: the bullet counter is never negative; a fire keydown at 0
\* changes no collection and not the counter; a fire keydown above 0 adds one
\* bullet and takes one off the counter.
C2_AsStated ==
  /\ [](bulletsRemaining >= 0)
  /\ [][ FireKeyDown =>
         IF bulletsRemaining = 0
         THEN UNCHANGED <<player, bullets, asteroids, boss, bossBullets,
                          bulletsRemaining>>
         ELSE /\ Len(bullets') = Len(bullets) + 1
              /\ bulletsRemaining' = bulletsRemaining - 1 ]_vars

\* C2 amended: the bullet counter is never negative; a fire keydown at 0, or
\* with no player in the store, changes no collection and not the counter; a
\* fire keydown above 0 with a player appends one bullet at the player's x and
\* 20 above its y, takes one off the counter and changes nothing else.
C2_FireRefusedAtZero ==
  /\ [](bulletsRemaining >= 0)
  /\ [][ FireKeyDown =>
         IF bulletsRemaining = 0 \/ player = NULL
         THEN UNCHANGED <<player, bullets, asteroids, boss, bossBullets,
                          bulletsRemaining>>
         ELSE /\ bullets' = Append(bullets,
                   [x |-> player.x, y |-> player.y - 20, width |-> 6,
                    height |-> 6, vy |-> -8])
              /\ bulletsRemaining' = bulletsRemaining - 1
              /\ UNCHANGED <<player, asteroids, boss, bossBullets>> ]_vars

\* C2 witness: a fire keydown arrived in a level with the counter at 0.
C2_Witness ==
  /\ last.op = "keydown" /\ last.code = "Space"
  /\ last.ammo = 0 /\ last.from \in Levels
  /\ bulletsRemaining = 0

\* C3: a level-1 tick (time left) whose collisions leave no asteroid ends in
\* level2, also when the counter is 0 and no bullet is left in flight.
C3_ClearedBeforeAmmo ==
  (last.op = "tick" /\ last.from = "level1" /\ last.cleared)
    => gameState = "level2"

\* C3 witness: the last asteroid went with the last bullet, the counter at 0.
C3_Witness ==
  /\ last.op = "tick" /\ last.from = "level1"
  /\ last.cleared /\ last.ammoOut /\ last.ammo = 0
  /\ gameState = "level2"

\* C4 as stated: a level-2 tick in which a moved boss bullet overlaps the
\* player ends in lose, with the boss's hit points as they were.
C4_AsStated ==
  [][ (TickInLevel /\ last'.hitPlayer)
      => (gameState' = "lose" /\ boss'.hp = boss.hp) ]_vars

\* The player bullets of seq that overlap / do not overlap the box b.
C5_Overlapping(seq, b) == {i \in 1..Len(seq) : checkCollision(seq[i], b)}
C5_Missing(seq, b) ==
  LET Misses(x) == ~checkCollision(x, b) IN SelectSeq(seq, Misses)

\* C5: the boss's hit points stay in 0..4; in a level-2 tick (time left) each
\* player bullet overlapping the boss is removed and takes one hit point, and
\* when that brings the hit points to 0 the outcome is win and the tick stops.
C5_BossHits ==
  /\ [](boss # NULL => boss.hp \in 0..4)
  /\ [][ (TickInLevel /\ gameState = "level2" /\ timeRemaining - last'.d > 0)
         => LET inFlight == last'.inFlight
                n == Cardinality(C5_Overlapping(inFlight, boss'))
            IN  IF n >= boss.hp
                THEN /\ gameState' = "win"
                     /\ boss'.hp = 0
                     /\ Len(bullets') = Len(inFlight) - boss.hp
                ELSE /\ gameState' # "win"
                     /\ boss'.hp = boss.hp - n
                     /\ bullets' = C5_Missing(inFlight, boss') ]_vars

\* C5 witness: the boss, at 1 hit point, was hit by one bullet: win, and that
\* bullet is gone.
C5_Witness ==
  /\ last.op = "tick" /\ last.from = "level2"
  /\ gameState = "win" /\ boss.hp = 0
  /\ Len(bullets) = Len(last.inFlight) - 1

\* C6 as stated: in level1 there is no boss and no boss bullet.
C6_AsStated ==
  gameState = "level1" => (boss = NULL /\ bossBullets = <<>>)

C8_LevelTwoFresh ==
  /\ []( (last.op = "tick" /\ last.from = "level1" /\ Len(asteroids) = 0)
         => /\ gameState = "level2"
            /\ boss # NULL /\ boss.hp = 4 /\ boss.maxHp = 4
            /\ player # NULL
            /\ bullets = <<>> /\ bossBullets = <<>>
            /\ bulletsRemaining = 10
            /\ timeRemaining = 60 * 1000 )
  /\ [][ (gameState' = "level2" /\ gameState # "level2")
         => (TickInLevel /\ gameState = "level1" /\ Len(asteroids') = 0) ]_vars

\* C8 witness: level 1 was cleared with bullets spent and time used.
C8_Witness ==
  /\ last.op = "tick" /\ last.from = "level1" /\ gameState = "level2"
  /\ last.ammo < 10 /\ frame = 0

\* C9: a tick in menu, win or lose changes nothing of the game state.
C9_IdleTick ==
  [][ (last'.op = "tick" /\ gameState \in Idle) => UNCHANGED store ]_vars

\* C9 witness: a tick was taken in win, over a store that still held the boss.
C9_Witness ==
  /\ last.op = "tick" /\ last.from = "win" /\ boss # NULL

\* C10 as stated: a keydown of the fire key that is a repeat adds no bullet
\* and leaves the counter.
C10_AsStated ==
  [][ (FireKeyDown /\ last'.repeat) => UNCHANGED <<bullets, bulletsRemaining>> ]_vars

\* The step just taken was a level-2 tick that passed the timeout check.
TickInLevel2 ==
  /\ TickInLevel /\ gameState = "level2" /\ boss # NULL
  /\ timeRemaining - last'.d > 0

\* C11 as stated: a level-2 tick (time left) taken 2000 ms or more after the
\* boss's last shot spawns exactly one boss bullet at the boss's x and y + 30
\* and sets the last-shot time to the current time; a tick taken less than
\* 2000 ms after it spawns none.
C11_AsStated ==
  [][ TickInLevel2 =>
      IF lastTime' - boss.lastShot >= 2000
      THEN /\ last'.spawned = << [x |-> boss'.x, y |-> boss'.y + 30, width |-> 6,
                                  height |-> 6, vy |-> 6] >>
           /\ boss'.lastShot = lastTime'
      ELSE /\ last'.spawned = <<>>
           /\ boss'.lastShot = boss.lastShot ]_vars

\* Twice the width / height of the intersection of two boxes (<= 0: none).
C12_Width2(a, b) ==
  LET r == IF 2 * a.x + a.width < 2 * b.x + b.width
           THEN 2 * a.x + a.width ELSE 2 * b.x + b.width
      l == IF 2 * a.x - a.width > 2 * b.x - b.width
           THEN 2 * a.x - a.width ELSE 2 * b.x - b.width
  IN  r - l
C12_Height2(a, b) ==
  LET r == IF 2 * a.y + a.height < 2 * b.y + b.height
           THEN 2 * a.y + a.height ELSE 2 * b.y + b.height
      l == IF 2 * a.y - a.height > 2 * b.y - b.height
           THEN 2 * a.y - a.height ELSE 2 * b.y - b.height
  IN  r - l

\* C12: checkCollision(a, b) is true exactly when |a.x - b.x| is below half
\* the summed widths and |a.y - b.y| below half the summed heights: true when
\* the boxes share area, false when they are apart or only touch, and the
\* same with the arguments swapped.
C12_CheckCollision ==
  /\ Len(answer) >= 1 =>
       /\ answer[1] = ( /\ 2 * Abs(boxA.x - boxB.x) < boxA.width + boxB.width
                        /\ 2 * Abs(boxA.y - boxB.y) < boxA.height + boxB.height )
       /\ answer[1] = (C12_Width2(boxA, boxB) > 0 /\ C12_Height2(boxA, boxB) > 0)
  /\ Len(answer) = 2 => answer[2] = answer[1]

\* C12 witness: two boxes that touch along an edge, of which one has its
\* edges on halves, were tested both ways round and found not to collide.
C12_Witness ==
  /\ Len(answer) = 2 /\ ~answer[1]
  /\ C12_Width2(boxA, boxB) = 0 /\ C12_Height2(boxA, boxB) > 0
  /\ boxA.width = 3 /\ boxB.width = 3

\* C13 as stated: the player's x stays in 15 .. 1280 - 15 and its y at the
\* start value; every tick changes x by -5, 0 or +5.
C13_AsStated ==
  /\ [](player # NULL => (player.x \in 15..(1280 - 15) /\ player.y = 720 - 60))
  /\ [][ (last'.op = "tick" /\ player # NULL)
         => player'.x - player.x \in {-5, 0, 5} ]_vars

\* C13 amended: the player's x stays in 15 .. 1280 - 15 and its y at the
\* start value; every tick changes x by -5, 0 or +5, except the tick that
\* starts level 2, which puts the player back at x = 640; no other event
\* than a level start changes x.
C13_Clamped ==
  /\ [](player # NULL => (player.x \in 15..(1280 - 15) /\ player.y = 720 - 60))
  /\ [][ (last'.op = "tick" /\ player # NULL)
         => IF gameState = "level1" /\ gameState' = "level2"
            THEN player'.x = 640
            ELSE player'.x - player.x \in {-5, 0, 5} ]_vars
  /\ [][ (last'.op \in {"keydown", "keyup", "init"} /\ player # NULL)
         => player' = player ]_vars

\* C13 witness: the player stood at the left margin with the left key held,
\* and a tick left it there.
C13_Witness ==
  /\ last.op = "tick" /\ last.from \in Levels
  /\ player.x = 15 /\ keys["ArrowLeft"] /\ ~keys["ArrowRight"]
  /\ frame > (640 - 15) \div 5

\* The player bullets of seq, each moved up by 8, less those now above the
\* top edge.
C14_Advanced(seq) ==
  LET up == [i \in 1..Len(seq) |-> [seq[i] EXCEPT !.y = @ - 8]]
      OnScreen(b) == ~(b.y < 0)
  IN  SelectSeq(up, OnScreen)

\* C14 as stated: in a tick in a level that passes the timeout check, the
\* bullet-update step moves every player bullet in flight up by 8 once and
\* removes exactly those whose y is then below 0.
C14_AsStated ==
  [][ (TickInLevel /\ timeRemaining - last'.d > 0)
      => last'.moved = C14_Advanced(bullets) ]_vars

\* The elements of a sequence.
C15_Range(seq) == {seq[i] : i \in 1..Len(seq)}
\* The boss bullets of seq, each moved down by 6.
C15_Advanced(seq) == {[b EXCEPT !.y = @ + 6] : b \in C15_Range(seq)}

\* C15 as stated: in a level-2 tick (time left) every boss bullet, the one
\* just fired included, is moved down by 6 once; one that neither left the
\* bottom edge nor overlaps a player bullet is still there after the tick;
\* and a player bullet is taken out by the cancellation only if it overlaps
\* a boss bullet.
C15_AsStated ==
  [][ TickInLevel2 =>
      LET B == C15_Advanced(bossBullets \o last'.spawned)
          P == C15_Range(last'.moved)
          Innocent(b) == /\ ~(b.y > 720)
                         /\ \A q \in P : ~checkCollision(b, q)
      IN  /\ C15_Range(bossBullets') \subseteq B
          /\ \A b \in B : Innocent(b) => b \in C15_Range(bossBullets')
          /\ \A q \in P \ C15_Range(last'.inFlight) :
                \E b \in B : checkCollision(b, q) ]_vars

\* C16: a tick in a level that ends with the counter at 0 and no player
\* bullet in flight, the level not being cleared or won by it, ends in lose;
\* so in level1 and level2 the counter is above 0 or a bullet is in flight;
\* and the out-of-ammo check declares the loss only with no bullet in flight.
C16_OutOfAmmo ==
  /\ (last.op = "tick" /\ last.from \in Levels /\ gameState # "win"
        /\ bulletsRemaining = 0 /\ Len(bullets) = 0)
       => gameState = "lose"
  /\ gameState \in Levels => (bulletsRemaining > 0 \/ Len(bullets) > 0)
  /\ (last.op = "tick" /\ last.ammoLose)
       => (gameState = "lose" /\ Len(bullets) = 0 /\ bulletsRemaining = 0)

\* C16 witness: in level 2 the last bullet left the screen with the counter
\* at 0 and the boss alive, and the tick ended in lose without the player
\* being hit.
C16_Witness ==
  /\ last.op = "tick" /\ last.from = "level2" /\ last.ammoLose
  /\ ~last.hitPlayer /\ timeRemaining > 0
  /\ gameState = "lose" /\ boss.hp > 0

\* C17 as stated: the store never holds a boss with 0 hit points (the tick
\* that brings the hit points to 0 deletes the boss).
C17_AsStated ==
  ~(boss # NULL /\ boss.hp = 0)

\* C18: while the interval keeps calling the loop, each call some time after
\* the last, a level always leads to win or lose; and the time remaining
\* goes up only at startLevel1 and in the tick that takes level1 to level2.
C18_EveryLevelEnds ==
  /\ (gameState \in Levels) ~> (gameState \in {"win", "lose"})
  /\ [][ timeRemaining' > timeRemaining
         => \/ last'.op = "start"
            \/ (last'.op = "tick" /\ gameState = "level1"
                  /\ gameState' = "level2") ]_vars

\* C18 witness: level 2, entered with the clock set back to 60 s, was ended
\* by the clock.
C18_Witness ==
  /\ last.op = "tick" /\ last.from = "level2" /\ last.d > FrameMs
  /\ gameState = "lose" /\ timeRemaining <= 0

\* C19 as stated: in win and lose no event but startLevel1 and restart
\* changes the game state; a keydown of the fire key there adds no bullet and
\* leaves the counter.
C19_AsStated ==
  [][ (gameState \in {"win", "lose"} /\ last'.op \notin {"start", "restart"})
      => UNCHANGED store ]_vars

\* C20: the player bullets in flight and the counter never sum to more than
\* 10, and the counter stays in 0..10; the counter goes up only when
\* startLevel1 or the tick that takes level1 to level2 sets it to 10 and
\* empties the bullets; and a step that adds bullets adds one and takes one
\* off the counter, so no more than 10 are fired from one level start to the
\* next.
C20_AmmoConserved ==
  /\ [](Len(bullets) + bulletsRemaining <= 10 /\ bulletsRemaining \in 0..10)
  /\ [][ bulletsRemaining' > bulletsRemaining
         => /\ bulletsRemaining' = 10 /\ bullets' = <<>>
            /\ \/ last'.op = "start"
               \/ (last'.op = "tick" /\ gameState = "level1"
                     /\ gameState' = "level2") ]_vars
  /\ [][ Len(bullets') > Len(bullets)
         => /\ Len(bullets') = Len(bullets) + 1
            /\ bulletsRemaining' = bulletsRemaining - 1 ]_vars

\* C20 witness: the tenth bullet of a level was fired while the other nine
\* were still in flight.
C20_Witness ==
  /\ last.op = "keydown" /\ last.code = "Space" /\ last.ammo = 1
  /\ gameState \in Levels
  /\ bulletsRemaining = 0 /\ Len(bullets) = 10

\* The outcome changes the game allows, each with the event that makes it:
\* startLevel1 from menu, win or lose; the tick that clears the asteroids from
\* level1 to level2; a tick from level1 to lose and from level2 to win or
\* lose; restartGame from win or lose to menu.
C21_Edge(from, to, ev) ==
  \/ from \in {"menu", "win", "lose"} /\ to = "level1" /\ ev.op = "start"
  \/ from = "level1" /\ to = "level2" /\ ev.op = "tick" /\ ev.cleared
  \/ from = "level1" /\ to = "lose" /\ ev.op = "tick"
  \/ from = "level2" /\ to \in {"win", "lose"} /\ ev.op = "tick"
  \/ from \in {"win", "lose"} /\ to = "menu" /\ ev.op = "restart"

\* C21: every change of the outcome is one of the edges menu/win/lose ->
\* level1 (startLevel1), level1 -> level2 (asteroids cleared), level1 -> lose,
\* level2 -> win, level2 -> lose, win/lose -> menu (restart), so win is never
\* entered from level1; and while the outcome is win the boss has 0 hit
\* points and at most 6 of the 10 bullets of level two remain.
C21_OutcomeGraph ==
  /\ [][ gameState' # gameState
         => C21_Edge(gameState, gameState', last') ]_vars
  /\ [][ gameState' = "win" => gameState \in {"level2", "win"} ]_vars
  /\ [](gameState = "win"
          => boss # NULL /\ boss.hp = 0 /\ bulletsRemaining <= 6)

\* C21 witness: a tick of level two took the boss's last hit point with the
\* fourth bullet fired there, and the outcome became win.
C21_Witness ==
  /\ last.op = "tick" /\ last.from = "level2"
  /\ gameState = "win" /\ boss.hp = 0
  /\ bulletsRemaining = 6

=============================================================================
